---- MODULE Spec2Model ----
(***************************************************************************)
(* Model of the Strava retrieval and weekly analytics code:                *)
(*   src/data/src/strava/strava_oauth.py     (StravaOAuth)                 *)
(*   src/data/src/strava/strava_analyzer.py  (StravaAnalyzer)              *)
(*                                                                         *)
(* Spec         the OAuth client: token calls, one authenticated request,  *)
(*              and the pagination loop of fetch_all_pages against a       *)
(*              provider that serves a finite list in consecutive pages.   *)
(* SpecSummary  the analyzer: a caller builds a list of raw activities and *)
(*              clean_activities or get_activities_summary is applied.     *)
(* SpecTool     the tools of server.py: get_activities and                 *)
(*              summarize_activities, invoked one after the other on one   *)
(*              server.                                                    *)
(***************************************************************************)
EXTENDS Integers, Sequences, FiniteSets

VARIABLES
    \* ---- OAuth client (strava_oauth.py) ----
    provider,     \* the provider's activity list, in the order it serves it
    pc,           \* "idle" | "fetching" | "done": position of the current call
    op,           \* the StravaOAuth method the current call runs
    per_page,     \* fetch_all_pages: argument per_page
    page,         \* fetch_all_pages: local page
    all_items,    \* fetch_all_pages: local all_items
    requests,     \* self.http.request calls of the current call, with the response each got
    result,       \* what the current call returned or raised
    raised,       \* every (response status, exception) pair make_authenticated_request has raised
    calls,        \* number of finished calls
    \* ---- analyzer (strava_analyzer.py) ----
    activities,        \* the list passed to get_activities_summary
    phase,             \* "input" | "summarized"
    include_weekly,    \* argument include_weekly of the last call
    weekly_activities, \* local weekly_activities at return, in insertion order
    summary,           \* what get_activities_summary returned or raised
    passed,            \* the list as it was when the caller passed it
    cleaned,           \* what clean_activities returned
    previous,          \* what the first of two get_activities_summary calls returned
    \* ---- tools (server.py) ----
    env,               \* which of the STRAVA_* environment variables are set
    settings,          \* the ServerSettings object the tools of one server share
    tool,              \* the tool invocation that has ended and not yet been answered
    tool_result,       \* what that invocation returned to the caller, or raised
    tool_requests      \* the HTTP requests that invocation issued

oauthVars == <<provider, pc, op, per_page, page, all_items, requests, result, raised, calls>>
analyzerVars == <<activities, phase, include_weekly, weekly_activities, summary,
                  passed, cleaned, previous>>
toolVars == <<env, settings, tool, tool_result, tool_requests>>
vars == <<provider, pc, op, per_page, page, all_items, requests, result, raised, calls,
          activities, phase, include_weekly, weekly_activities, summary,
          passed, cleaned, previous,
          env, settings, tool, tool_result, tool_requests>>

\* ---------------------------------------------------------------- bounds
MaxItems == 4      \* the provider holds 0..MaxItems activities
MaxPerPage == 3    \* per_page ranges over 1..MaxPerPage
MaxCalls == 2      \* calls made one after the other on one StravaOAuth object

\* ---------------------------------------------------------------- helpers
Min(a, b) == IF a < b THEN a ELSE b

None == [ok |-> TRUE, none |-> TRUE]

Returned(v) == [ok |-> TRUE, value |-> v]

\* raise <kind>(<msg>): msg is the list of the message's parts
Raised(kind, msg) == [ok |-> FALSE, kind |-> kind, msg |-> msg]

\* ---------------------------------------------------------------- the provider
ItemIds == 1..MaxItems

\* The lists a provider can hold: distinct activities, any order, any length up to MaxItems.
ProviderLists ==
    UNION {{s \in [1..n -> ItemIds] : \A i, j \in 1..n : i # j => s[i] # s[j]} : n \in 0..MaxItems}

\* What the HTTP layer can answer: a status, or no answer at all (status 0: the
\* transport raised, urllib3 gives no response object).
Statuses == {200, 401, 500, 0}

\* The items of page p when the list is served in consecutive pages of pp items.
PageOf(items, p, pp) == SubSeq(items, (p - 1) * pp + 1, Min(p * pp, Len(items)))

\* The provider's answer to GET <url>?page=p&per_page=pp with the given status.
PageResponse(status, p, pp) ==
    [status |-> status, body |-> IF status = 200 THEN PageOf(provider, p, pp) ELSE <<>>]

\* The provider's answer to a token POST or to a GET of a single resource.
PlainResponse(status) ==
    [status |-> status, body |-> IF status = 200 THEN <<1>> ELSE <<>>]

\* One entry of the request log: the request and the response it got.
Request(method, url, grant, p, pp, resp) ==
    [method |-> method, url |-> url, grant |-> grant, page |-> p, per_page |-> pp,
     status |-> resp.status, count |-> Len(resp.body)]

\* ---------------------------------------------------------------- StravaOAuth
\* exchange_code_for_token / refresh_access_token, lines 45-50 and 62-67: the
\* transport's own exception propagates unchanged, a non-200 raises Exception.
token_call(resp, failure) ==
    IF resp.status = 0 THEN Raised("HTTPError", <<"transport">>)
    ELSE IF resp.status = 200 THEN Returned(resp.body)
    ELSE Raised("Exception", <<failure, "body">>)

\* make_authenticated_request, the try block (lines 76-85).
request_try(resp) ==
    IF resp.status = 0 THEN Raised("HTTPError", <<"transport">>)
    ELSE IF resp.status = 401 THEN Raised("Exception", <<"Access token expired">>)
    ELSE IF resp.status # 200 THEN Raised("Exception", <<"Request failed: ", "body">>)
    ELSE Returned(resp.body)

\* make_authenticated_request (lines 75-88): whatever the try block raises is
\* caught and raised again as Exception("Request failed: " + str(e)).
make_authenticated_request(resp) ==
    LET r == request_try(resp) IN
    IF r.ok THEN r ELSE Raised("Exception", <<"Request failed: ">> \o r.msg)

\* A 401 makes the call refresh the token and send the request again.
http_requests_retry_on_401(req, again) ==
    IF req.status = 401 THEN <<req, again, req>> ELSE <<req>>

\* The self.http.request calls one make_authenticated_request makes, given its
\* first request req (line 76 only: no branch of lines 79-88 sends anything).
http_requests(req, again) == <<req>>

\* fetch_all_pages hands back the items gathered so far when a page fails.
fetch_iteration_partial(items, p, pp, r) ==
    IF ~r.ok THEN [all_items |-> items, page |-> p, pc |-> "done", result |-> Returned(items)]
    ELSE IF r.value = <<>>
    THEN [all_items |-> items, page |-> p, pc |-> "done", result |-> Returned(items)]
    ELSE IF Len(r.value) < pp
    THEN [all_items |-> items \o r.value, page |-> p, pc |-> "done",
          result |-> Returned(items \o r.value)]
    ELSE [all_items |-> items \o r.value, page |-> p + 1, pc |-> "fetching", result |-> None]

\* fetch_all_pages tests for the short page before it extends all_items.
fetch_iteration_drop_last(items, p, pp, r) ==
    IF ~r.ok THEN [all_items |-> items, page |-> p, pc |-> "done", result |-> r]
    ELSE IF r.value = <<>> \/ Len(r.value) < pp
    THEN [all_items |-> items, page |-> p, pc |-> "done", result |-> Returned(items)]
    ELSE [all_items |-> items \o r.value, page |-> p + 1, pc |-> "fetching", result |-> None]

\* fetch_all_pages stops after a full page too (<= for <).
fetch_iteration_le(items, p, pp, r) ==
    IF ~r.ok THEN [all_items |-> items, page |-> p, pc |-> "done", result |-> r]
    ELSE IF r.value = <<>>
    THEN [all_items |-> items, page |-> p, pc |-> "done", result |-> Returned(items)]
    ELSE IF Len(r.value) <= pp
    THEN [all_items |-> items \o r.value, page |-> p, pc |-> "done",
          result |-> Returned(items \o r.value)]
    ELSE [all_items |-> items \o r.value, page |-> p + 1, pc |-> "fetching", result |-> None]

\* fetch_all_pages without the short-page test: only an empty page ends the loop.
fetch_iteration_until_empty(items, p, pp, r) ==
    IF ~r.ok THEN [all_items |-> items, page |-> p, pc |-> "done", result |-> r]
    ELSE IF r.value = <<>>
    THEN [all_items |-> items, page |-> p, pc |-> "done", result |-> Returned(items)]
    ELSE [all_items |-> items \o r.value, page |-> p + 1, pc |-> "fetching", result |-> None]

\* One iteration of the while loop of fetch_all_pages (lines 103-118), and the
\* return of line 120, given what make_authenticated_request gave for this page:
\* an exception leaves the function at once (all_items is lost with the frame).
fetch_iteration(items, p, pp, r) ==
    IF ~r.ok THEN [all_items |-> items, page |-> p, pc |-> "done", result |-> r]
    ELSE IF r.value = <<>>
    THEN [all_items |-> items, page |-> p, pc |-> "done", result |-> Returned(items)]
    ELSE IF Len(r.value) < pp
    THEN [all_items |-> items \o r.value, page |-> p, pc |-> "done",
          result |-> Returned(items \o r.value)]
    ELSE [all_items |-> items \o r.value, page |-> p + 1, pc |-> "fetching", result |-> None]

\* What the log of raised exceptions gains from one make_authenticated_request.
Record(resp, r) ==
    IF r.ok THEN raised ELSE raised \cup {[status |-> resp.status, kind |-> r.kind, msg |-> r.msg]}

\* ---------------------------------------------------------------- OAuth actions
OAuthInit ==
    /\ provider \in ProviderLists
    /\ pc = "idle"
    /\ op = "none"
    /\ per_page = 0
    /\ page = 0
    /\ all_items = <<>>
    /\ requests = <<>>
    /\ result = None
    /\ raised = {}
    /\ calls = 0

OAuthIdle ==
    /\ provider = <<>>
    /\ pc = "idle"
    /\ op = "none"
    /\ per_page = 0
    /\ page = 0
    /\ all_items = <<>>
    /\ requests = <<>>
    /\ result = None
    /\ raised = {}
    /\ calls = 0

exchange_code_for_token ==
    /\ pc = "idle" /\ calls < MaxCalls
    /\ \E status \in Statuses :
         LET resp == PlainResponse(status) IN
         /\ requests' = <<Request("POST", "token", "authorization_code", 0, 0, resp)>>
         /\ result' = token_call(resp, "Failed to exchange code for token: ")
    /\ op' = "exchange_code_for_token"
    /\ pc' = "done"
    /\ UNCHANGED <<provider, per_page, page, all_items, raised, calls>>
    /\ UNCHANGED analyzerVars
    /\ UNCHANGED toolVars

refresh_access_token ==
    /\ pc = "idle" /\ calls < MaxCalls
    /\ \E status \in Statuses :
         LET resp == PlainResponse(status) IN
         /\ requests' = <<Request("POST", "token", "refresh_token", 0, 0, resp)>>
         /\ result' = token_call(resp, "Failed to refresh token: ")
    /\ op' = "refresh_access_token"
    /\ pc' = "done"
    /\ UNCHANGED <<provider, per_page, page, all_items, raised, calls>>
    /\ UNCHANGED analyzerVars
    /\ UNCHANGED toolVars

\* A direct call of make_authenticated_request (server.py line 127,
\* retrieve_tokens.py line 24).
authenticated_request ==
    /\ pc = "idle" /\ calls < MaxCalls
    /\ \E status \in Statuses :
         LET resp == PlainResponse(status)
             r == make_authenticated_request(resp)
         IN
         /\ requests' = http_requests(Request("GET", "athlete", "", 0, 0, resp),
                                      Request("POST", "token", "refresh_token", 0, 0, resp))
         /\ result' = r
         /\ raised' = Record(resp, r)
    /\ op' = "make_authenticated_request"
    /\ pc' = "done"
    /\ UNCHANGED <<provider, per_page, page, all_items, calls>>
    /\ UNCHANGED analyzerVars
    /\ UNCHANGED toolVars

\* fetch_all_pages is entered (lines 101-102).
fetch_all_pages ==
    /\ pc = "idle" /\ calls < MaxCalls
    /\ \E pp \in 1..MaxPerPage : per_page' = pp
    /\ all_items' = <<>>
    /\ page' = 1
    /\ requests' = <<>>
    /\ result' = None
    /\ op' = "fetch_all_pages"
    /\ pc' = "fetching"
    /\ UNCHANGED <<provider, raised, calls>>
    /\ UNCHANGED analyzerVars
    /\ UNCHANGED toolVars

\* One turn of the loop of fetch_all_pages (lines 104-118).
fetch_page ==
    /\ pc = "fetching"
    /\ \E status \in Statuses :
         LET resp == PageResponse(status, page, per_page)
             r == make_authenticated_request(resp)
             n == fetch_iteration(all_items, page, per_page, r)
         IN
         /\ requests' = requests \o
                http_requests(Request("GET", "activities", "", page, per_page, resp),
                              Request("POST", "token", "refresh_token", 0, 0, resp))
         /\ raised' = Record(resp, r)
         /\ all_items' = n.all_items
         /\ page' = n.page
         /\ pc' = n.pc
         /\ result' = n.result
    /\ UNCHANGED <<provider, op, per_page, calls>>
    /\ UNCHANGED analyzerVars
    /\ UNCHANGED toolVars

\* The caller takes the result; the frame of the call is gone.
call_returns ==
    /\ pc = "done"
    /\ pc' = "idle"
    /\ op' = "none"
    /\ per_page' = 0
    /\ page' = 0
    /\ all_items' = <<>>
    /\ requests' = <<>>
    /\ result' = None
    /\ calls' = calls + 1
    /\ UNCHANGED <<provider, raised>>
    /\ UNCHANGED analyzerVars
    /\ UNCHANGED toolVars

AnalyzerIdle ==
    /\ activities = <<>>
    /\ phase = "input"
    /\ include_weekly = TRUE
    /\ weekly_activities = <<>>
    /\ summary = None
    /\ passed = <<>>
    /\ cleaned = <<>>
    /\ previous = None

\* No server is running.
ToolIdle ==
    /\ env = {}
    /\ settings = [client_id |-> "", client_secret |-> ""]
    /\ tool = [name |-> "none"]
    /\ tool_result = None
    /\ tool_requests = <<>>

Init == OAuthInit /\ AnalyzerIdle /\ ToolIdle

Next ==
    \/ exchange_code_for_token
    \/ refresh_access_token
    \/ authenticated_request
    \/ fetch_all_pages
    \/ fetch_page
    \/ call_returns

Spec == Init /\ [][Next]_vars

\* ---------------------------------------------------------------- text and dates
\* A string is the sequence of its character codes ("-" 45, "0".."9" 48..57,
\* ":" 58, "T" 84, "Z" 90), so that parsing, formatting and the order of strings
\* are computed on the characters.
IsDigit(c) == c >= 48 /\ c <= 57

\* n written with w digits, zero padded (%Y is 4 wide, %m %d %H %M %S are 2 wide)
Pad(n, w) == [i \in 1..w |-> 48 + ((n \div (10 ^ (w - i))) % 10)]

\* The number written by the digits of s (s is all digits).
RECURSIVE Number(_)
Number(s) == IF s = <<>> THEN 0 ELSE 10 * Number(SubSeq(s, 1, Len(s) - 1)) + (s[Len(s)] - 48)

\* The provider's timestamp text, "YYYY-MM-DDTHH:MM:SSZ".
IsoZ(y, m, d, h, mi, sec) ==
    Pad(y, 4) \o <<45>> \o Pad(m, 2) \o <<45>> \o Pad(d, 2) \o <<84>>
        \o Pad(h, 2) \o <<58>> \o Pad(mi, 2) \o <<58>> \o Pad(sec, 2) \o <<90>>

\* str < str in Python: code point by code point, a proper prefix first.
RECURSIVE StrLess(_, _)
StrLess(s, t) ==
    IF t = <<>> THEN FALSE
    ELSE IF s = <<>> THEN TRUE
    ELSE IF Head(s) # Head(t) THEN Head(s) < Head(t)
    ELSE StrLess(Tail(s), Tail(t))

\* datetime's calendar (proleptic Gregorian, ordinal 1 = 0001-01-01).
is_leap(y) == y % 4 = 0 /\ (y % 100 # 0 \/ y % 400 = 0)

days_in_month(y, m) ==
    IF m = 2 /\ is_leap(y) THEN 29
    ELSE <<31, 28, 31, 30, 31, 30, 31, 31, 30, 31, 30, 31>>[m]

days_before_month(y, m) ==
    <<0, 31, 59, 90, 120, 151, 181, 212, 243, 273, 304, 334>>[m]
        + (IF m > 2 /\ is_leap(y) THEN 1 ELSE 0)

days_before_year(y) ==
    (y - 1) * 365 + ((y - 1) \div 4) - ((y - 1) \div 100) + ((y - 1) \div 400)

ymd2ord(y, m, d) == days_before_year(y) + days_before_month(y, m) + d

ord2ymd(ordinal) ==
    LET n0 == ordinal - 1
        n400 == n0 \div 146097
        r400 == n0 % 146097
        n100 == r400 \div 36524
        r100 == r400 % 36524
        n4 == r100 \div 1461
        r4 == r100 % 1461
        n1 == r4 \div 365
        n == r4 % 365
        year == n400 * 400 + 1 + n100 * 100 + n4 * 4 + n1
        guess == (n + 50) \div 32
        month == IF days_before_month(year, guess) > n THEN guess - 1 ELSE guess
    IN
    IF n1 = 4 \/ n100 = 4 THEN <<year - 1, 12, 31>>
    ELSE <<year, month, n - days_before_month(year, month) + 1>>

\* datetime.strptime(s, '%Y-%m-%dT%H:%M:%SZ') (line 113): the parsed fields, or
\* ValueError when s does not match the format or names no real date.
strptime(s) ==
    IF /\ Len(s) = 20
       /\ s[5] = 45 /\ s[8] = 45 /\ s[11] = 84 /\ s[14] = 58 /\ s[17] = 58 /\ s[20] = 90
       /\ \A i \in (1..19) \ {5, 8, 11, 14, 17} : IsDigit(s[i])
    THEN
        LET y == Number(SubSeq(s, 1, 4))
            m == Number(SubSeq(s, 6, 7))
            d == Number(SubSeq(s, 9, 10))
            h == Number(SubSeq(s, 12, 13))
            mi == Number(SubSeq(s, 15, 16))
            sec == Number(SubSeq(s, 18, 19))
        IN
        IF /\ y >= 1 /\ m >= 1 /\ m <= 12 /\ d >= 1
           /\ h <= 23 /\ mi <= 59 /\ sec <= 61
           /\ d <= days_in_month(y, m)
        THEN Returned([year |-> y, month |-> m, day |-> d, hour |-> h, minute |-> mi, second |-> sec])
        ELSE Raised("ValueError", <<"time data does not match format">>)
    ELSE Raised("ValueError", <<"time data does not match format">>)

\* Sunday is day 0 (the week runs Sunday to Saturday).
weekday_sunday_first(dt) == ymd2ord(dt.year, dt.month, dt.day) % 7

\* datetime.weekday(): Monday is 0, Sunday is 6.
weekday(dt) == (ymd2ord(dt.year, dt.month, dt.day) + 6) % 7

\* start_date - timedelta(days=n) (line 115): the date moves, the time of day stays.
minus_days(dt, n) ==
    LET ymd == ord2ymd(ymd2ord(dt.year, dt.month, dt.day) - n) IN
    [dt EXCEPT !.year = ymd[1], !.month = ymd[2], !.day = ymd[3]]

\* week_start.strftime('%Y-%m-%d') (line 116).
strftime(dt) == Pad(dt.year, 4) \o <<45>> \o Pad(dt.month, 2) \o <<45>> \o Pad(dt.day, 2)

\* ---------------------------------------------------------------- StravaAnalyzer
\* Conversion factors (lines 9-11), as integers: miles in 1e-9, mph and feet in 1e-5.
METERS_TO_MILES == 621371
MPS_TO_MPH == 223694
METERS_TO_FEET == 328084

\* activity.get(key, default)
Get(activity, key, default) == IF key \in DOMAIN activity THEN activity[key] ELSE default

\* self.fields_to_remove (line 14)
fields_to_remove == {"athlete", "map", "start_latlng", "end_latlng"}

\* The six fields clean_activity converts (lines 22-32).
converted_fields ==
    {"distance", "elev_high", "elev_low", "average_speed", "max_speed", "total_elevation_gain"}

\* clean_activity reading the distance with a default of 0 (activity.get).
clean_activity_default_distance(activity) ==
    [k \in ((DOMAIN activity) \cup {"distance"}) \ fields_to_remove |->
        IF k = "distance" THEN Get(activity, k, 0) * METERS_TO_MILES
        ELSE IF k \in {"elev_high", "elev_low", "total_elevation_gain"}
             THEN activity[k] * METERS_TO_FEET
        ELSE IF k \in {"average_speed", "max_speed"} THEN activity[k] * MPS_TO_MPH
        ELSE activity[k]]

\* clean_activity (lines 18-34): a new dict without the removed keys, the six
\* metric fields multiplied when present.
clean_activity(activity) ==
    [k \in (DOMAIN activity) \ fields_to_remove |->
        IF k = "distance" THEN activity[k] * METERS_TO_MILES
        ELSE IF k \in {"elev_high", "elev_low", "total_elevation_gain"}
             THEN activity[k] * METERS_TO_FEET
        ELSE IF k \in {"average_speed", "max_speed"} THEN activity[k] * MPS_TO_MPH
        ELSE activity[k]]

\* clean_activities (line 38)
clean_activities(acts) == [i \in 1..Len(acts) |-> clean_activity(acts[i])]


RECURSIVE Sum(_, _, _)
Sum(acts, key, n) == IF n = 0 THEN 0 ELSE Sum(acts, key, n - 1) + Get(acts[n], key, 0)

\* _calculate_activity_stats counting only the activities that have a 'type'.
_calculate_activity_stats_typed_only(acts) ==
    IF acts = <<>> THEN <<>>
    ELSE
        LET types == {acts[i]["type"] : i \in {j \in 1..Len(acts) : "type" \in DOMAIN acts[j]}} IN
        [total_activities |-> Len(acts),
         total_distance_miles |-> Sum(acts, "distance", Len(acts)),
         total_moving_time_hours |-> <<Sum(acts, "moving_time", Len(acts)), 3600>>,
         total_elapsed_time_hours |-> <<Sum(acts, "elapsed_time", Len(acts)), 3600>>,
         activity_types |->
             [t \in types |->
                 Cardinality({i \in 1..Len(acts) :
                     "type" \in DOMAIN acts[i] /\ acts[i]["type"] = t})]]

\* _calculate_activity_stats (lines 64-84).  The two hour totals are the quotient
\* seconds / 3600, kept as the pair of numerator and denominator.
_calculate_activity_stats(acts) ==
    IF acts = <<>> THEN <<>>
    ELSE
        LET types == {Get(acts[i], "type", "Unknown") : i \in 1..Len(acts)} IN
        [total_activities |-> Len(acts),
         total_distance_miles |-> Sum(acts, "distance", Len(acts)),
         total_moving_time_hours |-> <<Sum(acts, "moving_time", Len(acts)), 3600>>,
         total_elapsed_time_hours |-> <<Sum(acts, "elapsed_time", Len(acts)), 3600>>,
         activity_types |->
             [t \in types |->
                 Cardinality({i \in 1..Len(acts) : Get(acts[i], "type", "Unknown") = t})]]

\* Lines 113-116 for one cleaned activity: its week key, or the exception raised
\* (KeyError when start_date is absent, ValueError when it does not parse).
week_key(activity) ==
    IF "start_date" \notin DOMAIN activity THEN Raised("KeyError", <<"start_date">>)
    ELSE
        LET start_date == strptime(activity["start_date"]) IN
        IF ~start_date.ok THEN start_date
        ELSE Returned(strftime(minus_days(start_date.value, weekday(start_date.value))))

\* weekly_activities[week_key] = [activity]: the week's list is replaced.
bucket_overwrite(groups, key, activity) ==
    IF \E i \in 1..Len(groups) : groups[i].key = key
    THEN [i \in 1..Len(groups) |->
             IF groups[i].key = key THEN [key |-> key, acts |-> <<activity>>] ELSE groups[i]]
    ELSE Append(groups, [key |-> key, acts |-> <<activity>>])

\* weekly_activities[week_key].append(activity) on the defaultdict (line 117):
\* a new key goes last, a known key's list grows.
bucket_append(groups, key, activity) ==
    IF \E i \in 1..Len(groups) : groups[i].key = key
    THEN [i \in 1..Len(groups) |->
             IF groups[i].key = key
             THEN [key |-> key, acts |-> Append(groups[i].acts, activity)]
             ELSE groups[i]]
    ELSE Append(groups, [key |-> key, acts |-> <<activity>>])

\* The grouping loop leaving out every activity that is not a run.
RECURSIVE group_by_week_runs_only(_, _)
group_by_week_runs_only(cleaned_activities, n) ==
    IF n = 0 THEN <<>>
    ELSE IF Get(cleaned_activities[n], "type", "Unknown") # "Run"
    THEN group_by_week_runs_only(cleaned_activities, n - 1)
    ELSE bucket_append(group_by_week_runs_only(cleaned_activities, n - 1),
                       week_key(cleaned_activities[n]).value, cleaned_activities[n])

\* The grouping loop (lines 110-117) over the first n cleaned activities, all of
\* which have a week key.
RECURSIVE group_by_week(_, _)
group_by_week(cleaned_activities, n) ==
    IF n = 0 THEN <<>>
    ELSE bucket_append(group_by_week(cleaned_activities, n - 1),
                       week_key(cleaned_activities[n]).value, cleaned_activities[n])

\* The items in the order the dict holds them.
sorted_as_inserted(items) == items

\* sorted(weekly_activities.items()) (line 121): ascending by the key string
\* (the keys of a dict are distinct, so the lists are never compared).
RECURSIVE sorted(_)
sorted(items) ==
    IF items = <<>> THEN <<>>
    ELSE
        LET i == CHOOSE i \in 1..Len(items) :
                     \A j \in 1..Len(items) : j # i => StrLess(items[i].key, items[j].key)
        IN <<items[i]>> \o sorted(SubSeq(items, 1, i - 1) \o SubSeq(items, i + 1, Len(items)))

\* get_activities_summary after its guard (lines 99-126): what it returns or
\* raises, and the local weekly_activities it leaves.
summary_body(acts, weekly) ==
    LET cleaned_activities == clean_activities(acts)
        overall_summary == _calculate_activity_stats(cleaned_activities)
    IN
    IF ~weekly THEN [out |-> Returned([overall |-> overall_summary]), groups |-> <<>>]
    ELSE IF \E i \in 1..Len(acts) : ~week_key(cleaned_activities[i]).ok
    THEN
        LET first == CHOOSE i \in 1..Len(acts) :
                         /\ ~week_key(cleaned_activities[i]).ok
                         /\ \A j \in 1..(i - 1) : week_key(cleaned_activities[j]).ok
        IN [out |-> week_key(cleaned_activities[first]),
            groups |-> group_by_week(cleaned_activities, first - 1)]
    ELSE
        LET groups == group_by_week(cleaned_activities, Len(acts))
            ordered == sorted(groups)
        IN [out |-> Returned(
                       [overall |-> overall_summary,
                        weekly |-> [i \in 1..Len(ordered) |->
                                       [key |-> ordered[i].key,
                                        stats |-> _calculate_activity_stats(ordered[i].acts)]]]),
            groups |-> groups]

\* get_activities_summary without the guard of lines 96-97.
get_activities_summary_unguarded(acts, weekly) == summary_body(acts, weekly)

\* get_activities_summary (lines 96-126): an empty list returns {} at once.
get_activities_summary(acts, weekly) ==
    IF acts = <<>> THEN [out |-> Returned(<<>>), groups |-> <<>>]
    ELSE summary_body(acts, weekly)

\* clean_activity converts the fields of the dict it was given (cleaned = activity).
input_after_clean_in_place(activity) ==
    [k \in DOMAIN activity |->
        IF k \in fields_to_remove THEN activity[k] ELSE clean_activity(activity)[k]]

\* The caller's dict after clean_activity(activity): line 18 builds a new dict
\* and lines 22-32 assign to that one only.
input_after_clean(activity) == activity

\* The caller's list after clean_activities(acts) (line 38, a new list): same
\* length and order, each dict as clean_activity leaves it.
input_after_clean_activities(acts) == [i \in 1..Len(acts) |-> input_after_clean(acts[i])]

\* The caller's list after get_activities_summary(acts, ...): an empty list
\* returns before anything is cleaned (lines 96-99).
input_after_summary(acts) ==
    IF acts = <<>> THEN acts ELSE input_after_clean_activities(acts)

\* ---------------------------------------------------------------- analyzer inputs
MaxActs == 3       \* the list passed to get_activities_summary holds 0..MaxActs activities

\* The (UTC, local) start times the raw activities are drawn from.
StartTimes ==
    { <<IsoZ(2025, 6, 2, 15, 0, 0), IsoZ(2025, 6, 2, 8, 0, 0)>>,     \* a Monday morning
      <<IsoZ(2025, 6, 8, 14, 0, 0), IsoZ(2025, 6, 8, 7, 0, 0)>>,     \* the Sunday after
      <<IsoZ(2025, 6, 9, 3, 0, 0), IsoZ(2025, 6, 8, 20, 0, 0)>>,     \* Sunday evening, Monday in UTC
      <<IsoZ(2025, 6, 9, 15, 0, 0), IsoZ(2025, 6, 9, 8, 0, 0)>>,     \* the next Monday
      <<IsoZ(2026, 1, 4, 12, 0, 0), IsoZ(2026, 1, 4, 13, 0, 0)>>,    \* a Sunday, week began last year
      <<IsoZ(2024, 3, 3, 10, 0, 0), IsoZ(2024, 3, 3, 11, 0, 0)>> }   \* a Sunday, week spans 29 Feb

\* The start times of the records that carry nothing but their dates.
SparseTimes == {t \in StartTimes : Number(SubSeq(t[1], 6, 7)) # 6}

\* The raw activities with identifier id a provider can return: runs with every
\* field, records with nothing but their dates, a ride without a distance, and
\* two records whose start_date is absent or is not a timestamp.
RawActivities(id) ==
    {[id |-> id, type |-> "Run", start_date |-> t[1], start_date_local |-> t[2],
      distance |-> 100, moving_time |-> 1800, elapsed_time |-> 2000,
      average_speed |-> 3, total_elevation_gain |-> 10,
      athlete |-> "athlete", map |-> "map", start_latlng |-> "latlng"] : t \in StartTimes}
    \cup {[id |-> id, start_date |-> t[1], start_date_local |-> t[2]] : t \in SparseTimes}
    \cup {[id |-> id, type |-> "Ride", moving_time |-> 600,
           start_date |-> IsoZ(2025, 6, 8, 14, 0, 0),
           start_date_local |-> IsoZ(2025, 6, 8, 7, 0, 0)]}
    \cup {[id |-> id, type |-> "Ride"],
          [id |-> id, type |-> "Ride", map |-> "map",
           start_date |-> SubSeq(IsoZ(2025, 6, 2, 15, 0, 0), 1, 10)]}

\* ---------------------------------------------------------------- analyzer actions
AnalyzerInit == AnalyzerIdle

\* The caller puts one more activity on the list it will pass.
add_activity ==
    /\ phase = "input"
    /\ Len(activities) < MaxActs
    /\ \E a \in RawActivities(Len(activities) + 1) : activities' = Append(activities, a)
    /\ UNCHANGED <<phase, include_weekly, weekly_activities, summary, passed, cleaned, previous>>
    /\ UNCHANGED oauthVars
    /\ UNCHANGED toolVars

\* clean_activities(activities) is called.
clean ==
    /\ phase = "input"
    /\ cleaned' = clean_activities(activities)
    /\ passed' = activities
    /\ activities' = input_after_clean_activities(activities)
    /\ phase' = "cleaned"
    /\ UNCHANGED <<include_weekly, weekly_activities, summary, previous>>
    /\ UNCHANGED oauthVars
    /\ UNCHANGED toolVars

\* clean_activities is called on the list clean_activities returned, when no
\* record of it holds a converted field (a second conversion of a converted
\* value leaves the integers the values are kept in).
clean_again ==
    /\ phase = "cleaned"
    /\ \A i \in 1..Len(cleaned) : (DOMAIN cleaned[i]) \cap converted_fields = {}
    /\ cleaned' = clean_activities(cleaned)
    /\ phase' = "recleaned"
    /\ UNCHANGED <<activities, include_weekly, weekly_activities, summary, passed, previous>>
    /\ UNCHANGED oauthVars
    /\ UNCHANGED toolVars

\* get_activities_summary(activities, include_weekly) is called.
summarize ==
    /\ phase = "input"
    /\ \E w \in BOOLEAN :
         LET r == get_activities_summary(activities, w) IN
         /\ include_weekly' = w
         /\ summary' = r.out
         /\ weekly_activities' = r.groups
    /\ passed' = activities
    /\ activities' = input_after_summary(activities)
    /\ phase' = "summarized"
    /\ UNCHANGED <<cleaned, previous>>
    /\ UNCHANGED oauthVars
    /\ UNCHANGED toolVars

\* get_activities_summary is called a second time with the same arguments.
summarize_again ==
    /\ phase = "summarized"
    /\ previous = None
    /\ LET r == get_activities_summary(activities, include_weekly) IN
         /\ summary' = r.out
         /\ weekly_activities' = r.groups
    /\ previous' = summary
    /\ activities' = input_after_summary(activities)
    /\ UNCHANGED <<phase, include_weekly, passed, cleaned>>
    /\ UNCHANGED oauthVars
    /\ UNCHANGED toolVars

InitSummary == OAuthIdle /\ AnalyzerInit /\ ToolIdle

NextSummary ==
    \/ add_activity
    \/ clean
    \/ clean_again
    \/ summarize
    \/ summarize_again

SpecSummary == InitSummary /\ [][NextSummary]_vars

\* ---------------------------------------------------------------- the tools (server.py)
MaxToolActs == 2   \* summarize_activities is given 0..MaxToolActs activities

\* An Optional[str]: <<>> is None, <<s>> is the string s.
NoneStr == <<>>

Str(s) == <<s>>

\* The three credentials of get_activities, in the order it checks them.
CredentialNames == <<"client_id", "client_secret", "access_token">>

\* bool(x) of an Optional[str]: None and the empty string are false.
Truthy(x) == x # NoneStr /\ x[1] # ""

\* a or b
Or(a, b) == IF Truthy(a) THEN a ELSE b

\* os.getenv('STRAVA_' + upper(name)): None when the variable is not set.
getenv(name) == IF name \in env THEN Str(name) ELSE NoneStr

\* ServerSettings() (server_settings.py): client_id and client_secret are read
\* from STRAVA_CLIENT_ID and STRAVA_CLIENT_SECRET, "" when they are not set.
ServerSettings(environment) ==
    [client_id |-> IF "client_id" \in environment THEN "client_id" ELSE "",
     client_secret |-> IF "client_secret" \in environment THEN "client_secret" ELSE ""]

\* A JSON object and a JSON array, as a tool returns them.
JsonObject(members) == [json |-> "object", members |-> members]

JsonArray(items) == [json |-> "array", items |-> items]

\* ', '.join(names)
RECURSIVE join(_)
join(names) ==
    IF Len(names) <= 1 THEN names
    ELSE <<names[1], ", ">> \o join(Tail(names))

\* Only the first credential that is missing is reported.
missing_credentials_first_only(client_id, client_secret, access_token) ==
    IF ~Truthy(client_id) THEN <<"client_id">>
    ELSE IF ~Truthy(client_secret) THEN <<"client_secret">>
    ELSE IF ~Truthy(access_token) THEN <<"access_token">>
    ELSE <<>>

\* The list missing of get_activities (lines 109-115).
missing_credentials(client_id, client_secret, access_token) ==
    (IF ~Truthy(client_id) THEN <<"client_id">> ELSE <<>>)
        \o (IF ~Truthy(client_secret) THEN <<"client_secret">> ELSE <<>>)
        \o (IF ~Truthy(access_token) THEN <<"access_token">> ELSE <<>>)

\* str(e): the message; a KeyError's is the repr of the key.
str(e) == IF e.kind = "KeyError" THEN <<"'">> \o e.msg \o <<"'">> ELSE e.msg

\* The exception leaves the tool.
tool_boundary_reraise(outcome) == outcome

\* try: ... except Exception as e: return {"error": str(e)} (lines 98, 131-132
\* and 157, 161-162).
tool_boundary(outcome) ==
    IF outcome.ok THEN outcome ELSE Returned(JsonObject([error |-> str(outcome)]))

\* The body of get_activities (lines 100-129) called with args when the
\* provider would answer a request with status: what it returns or raises, the
\* requests it issues and the settings it leaves.
get_activities_body(args, status) ==
    LET client_id == Or(args[1], getenv("client_id"))
        client_secret == Or(args[2], getenv("client_secret"))
        access_token == Or(args[3], getenv("access_token"))
        written == [client_id |-> IF Truthy(client_id) THEN client_id[1]
                                   ELSE settings.client_id,
                    client_secret |-> IF Truthy(client_secret) THEN client_secret[1]
                                       ELSE settings.client_secret]
        missing == missing_credentials(client_id, client_secret, access_token)
        resp == PlainResponse(status)
        payload == make_authenticated_request(resp)
    IN
    IF missing # <<>>
    THEN [out |-> Returned(JsonObject(
                      [error |-> <<"Missing required credentials: ">> \o join(missing)
                                     \o <<". Please provide them">>])),
          requests |-> <<>>,
          settings |-> written]
    ELSE [out |-> IF payload.ok THEN Returned(JsonArray(payload.value)) ELSE payload,
          requests |-> http_requests(Request("GET", "endpoint", "", 0, 0, resp),
                                     Request("POST", "token", "refresh_token", 0, 0, resp)),
          settings |-> written]

\* The body of summarize_activities (lines 158-160).
summarize_activities_body(acts, weekly) ==
    LET r == get_activities_summary(acts, weekly).out IN
    IF r.ok THEN Returned(JsonObject(r.value)) ELSE r

\* The argument values of get_activities: not passed, an empty string, a string.
ToolArgs ==
    {<<a, b, c>> : a \in {NoneStr, Str(""), Str("A")},
                   b \in {NoneStr, Str(""), Str("sA")},
                   c \in {NoneStr, Str(""), Str("tA")}}

\* The lists summarize_activities is given.
ToolLists ==
    UNION {{l \in [1..n -> UNION {RawActivities(i) : i \in 1..MaxToolActs}] :
                \A i \in 1..n : l[i].id = i} : n \in 0..MaxToolActs}

\* create_mcp_server (lines 55-67) in a process with some of the STRAVA_*
\* variables set.
ToolInit ==
    /\ env \in SUBSET {"client_id", "client_secret", "access_token"}
    /\ settings = ServerSettings(env)
    /\ tool = [name |-> "none"]
    /\ tool_result = None
    /\ tool_requests = <<>>

\* One invocation of the tool get_activities (lines 75-132).
get_activities ==
    /\ tool.name = "none"
    /\ \E args \in ToolArgs, status \in Statuses :
         LET r == get_activities_body(args, status) IN
         /\ tool' = [name |-> "get_activities", args |-> args]
         /\ tool_result' = tool_boundary(r.out)
         /\ tool_requests' = r.requests
         /\ settings' = r.settings
    /\ UNCHANGED env
    /\ UNCHANGED oauthVars
    /\ UNCHANGED analyzerVars

\* One invocation of the tool summarize_activities (lines 136-162).
summarize_activities ==
    /\ tool.name = "none"
    /\ \E acts \in ToolLists, weekly \in BOOLEAN :
         /\ tool' = [name |-> "summarize_activities", activities |-> acts,
                     include_weekly |-> weekly]
         /\ tool_result' = tool_boundary(summarize_activities_body(acts, weekly))
    /\ tool_requests' = <<>>
    /\ UNCHANGED <<env, settings>>
    /\ UNCHANGED oauthVars
    /\ UNCHANGED analyzerVars

\* The caller has the result; the server waits for the next invocation.  The
\* arguments and locals of the invocation are gone, settings stays.
tool_returns ==
    /\ tool.name # "none"
    /\ tool' = [name |-> "none"]
    /\ tool_result' = None
    /\ tool_requests' = <<>>
    /\ UNCHANGED <<env, settings>>
    /\ UNCHANGED oauthVars
    /\ UNCHANGED analyzerVars

InitTool == OAuthIdle /\ AnalyzerIdle /\ ToolInit

NextTool ==
    \/ get_activities
    \/ summarize_activities
    \/ tool_returns

SpecTool == InitTool /\ [][NextTool]_vars

\* ---------------------------------------------------------------- claims on the OAuth client
FetchDone == op = "fetch_all_pages" /\ pc = "done"

\* C1: against a provider that serves its C activities in consecutive pages of
\* per_page items, fetch_all_pages ends and returns exactly the provider's list,
\* each item once and in the provider's order.  While the loop runs, all_items is
\* the prefix served so far and (page - 1) * per_page never exceeds C, so the loop
\* makes at most C \div per_page + 1 turns.
C1_FetchReturnsAllInOrder ==
    /\ (FetchDone /\ result.ok) => result = Returned(provider)
    /\ (op = "fetch_all_pages" /\ pc = "fetching") =>
          /\ (page - 1) * per_page <= Len(provider)
          /\ all_items = SubSeq(provider, 1, (page - 1) * per_page)

\* C1 witness: a call over three pages returned a list that is not in id order.
C1_Witness ==
    /\ FetchDone /\ result.ok
    /\ Len(requests) = 3
    /\ Len(provider) >= 3
    /\ provider[1] > provider[2]

CeilDiv(a, b) == (a + b - 1) \div b

\* C2 as claimed: a successful fetch_all_pages issues exactly ceil(C/P) requests,
\* also when C is a multiple of P and when C = 0.
C2_CeilRequests ==
    (FetchDone /\ result.ok) => Len(requests) = CeilDiv(Len(provider), per_page)

\* C2 amended: a successful fetch_all_pages issues exactly floor(C/P) + 1 requests:
\* ceil(C/P) when C is not a multiple of P, and one more than ceil(C/P) when it is
\* (C = 0 included: one request).
C2_FloorPlusOneRequests ==
    (FetchDone /\ result.ok) =>
        /\ Len(requests) = (Len(provider) \div per_page) + 1
        /\ Len(provider) % per_page # 0 => Len(requests) = CeilDiv(Len(provider), per_page)
        /\ Len(provider) % per_page = 0 => Len(requests) = CeilDiv(Len(provider), per_page) + 1

\* C2 witness: the last non-empty page was full, and one more request was made.
C2_Witness ==
    /\ FetchDone /\ result.ok
    /\ Len(provider) = 2 * per_page
    /\ Len(requests) = 3

\* C3: the n-th request of fetch_all_pages is for page n with the call's per_page;
\* every request but the last got exactly per_page items, and the loop goes on to
\* page n + 1 after the n-th response if and only if that response held exactly
\* per_page items (a failed, empty or short page is the last request).
C3_NextPageIffFullPage ==
    op = "fetch_all_pages" =>
        /\ \A n \in 1..Len(requests) :
              /\ requests[n].method = "GET" /\ requests[n].url = "activities"
              /\ requests[n].page = n
              /\ requests[n].per_page = per_page
              /\ n < Len(requests) => requests[n].status = 200 /\ requests[n].count = per_page
        /\ requests = <<>> => pc = "fetching" /\ page = 1
        /\ requests # <<>> =>
              LET last == requests[Len(requests)] IN
              (last.status = 200 /\ last.count = per_page)
                  <=> (pc = "fetching" /\ page = Len(requests) + 1)

\* C3 witness: a full page was followed by a short, non-empty page, which ended the call.
C3_Witness ==
    /\ FetchDone
    /\ Len(requests) = 2
    /\ requests[1].count = per_page
    /\ requests[2].status = 200
    /\ requests[2].count > 0 /\ requests[2].count < per_page

\* C4: when the request for page k fails, fetch_all_pages ends there with an
\* exception: the failed request is the last one, and nothing is returned.
C4_FailureRaisesNoPartial ==
    op = "fetch_all_pages" =>
        \A k \in 1..Len(requests) :
            requests[k].status # 200 =>
                /\ k = Len(requests)
                /\ pc = "done"
                /\ ~result.ok
                /\ result.kind = "Exception"

\* C4 witness: page 2 failed after page 1 had delivered items.
C4_Witness ==
    /\ FetchDone
    /\ Len(requests) = 2
    /\ requests[2].status = 500
    /\ all_items # <<>>
    /\ ~result.ok

\* C5 as claimed: the exception make_authenticated_request raises on a 401 differs
\* in kind from the one it raises on another non-success response (500), and a
\* value is returned only on success.
C5_ExpiredTokenDistinctKind ==
    /\ \A e1, e2 \in raised :
          (e1.status = 401 /\ e2.status = 500) => e1.kind # e2.kind
    /\ (op = "make_authenticated_request" /\ pc = "done" /\ result.ok) =>
          requests[1].status = 200

\* C6: no retry: a finished exchange_code_for_token, refresh_access_token or
\* make_authenticated_request has issued exactly one HTTP request, fetch_all_pages
\* never asks for a page twice, and only refresh_access_token itself ever sends a
\* refresh_token grant.
C6_NoRetry ==
    /\ (pc = "done" /\ op \in {"exchange_code_for_token", "refresh_access_token",
                               "make_authenticated_request"}) => Len(requests) = 1
    /\ op = "fetch_all_pages" =>
          \A i, j \in 1..Len(requests) : i # j => requests[i].page # requests[j].page
    /\ op # "refresh_access_token" =>
          \A i \in 1..Len(requests) : requests[i].grant # "refresh_token"

\* C6 witness: a page of fetch_all_pages was answered 401 and the call is over.
C6_Witness ==
    /\ FetchDone
    /\ Len(requests) = 2
    /\ requests[2].status = 401

\* ---------------------------------------------------------------- claims on the analyzer
\* Days from 1970-01-01 to the civil date y-m-d (counted from March-based years,
\* independently of the analyzer's calendar arithmetic).
CivilDay(y, m, d) ==
    LET yy == IF m <= 2 THEN y - 1 ELSE y
        era == yy \div 400
        yoe == yy - era * 400
        mp == IF m > 2 THEN m - 3 ELSE m + 9
        doy == ((153 * mp + 2) \div 5) + d - 1
        doe == yoe * 365 + (yoe \div 4) - (yoe \div 100) + doy
    IN era * 146097 + doe - 719468

\* The day a text starting "YYYY-MM-DD" names.
DayOfText(s) ==
    CivilDay(Number(SubSeq(s, 1, 4)), Number(SubSeq(s, 6, 7)), Number(SubSeq(s, 9, 10)))

\* 1970-01-05, day 4, was a Monday.
IsMonday(day) == (day + 3) % 7 = 0

\* get_activities_summary has returned a weekly summary of a non-empty list.
WeeklyReturned ==
    /\ phase = "summarized" /\ include_weekly
    /\ activities # <<>>
    /\ summary.ok

\* The places (bucket, position) of weekly_activities.
Places ==
    UNION {{<<b, q>> : q \in 1..Len(weekly_activities[b].acts)} : b \in 1..Len(weekly_activities)}

\* C7: when get_activities_summary returns a weekly summary of a non-empty list,
\* every input activity sits at exactly one place of the week buckets, the buckets
\* hold nothing else, each week's total_activities is its bucket's size, and the
\* per-week counts add up to the number of input activities.
C7_WeeksPartitionInput ==
    WeeklyReturned =>
        LET weekly == summary.value.weekly IN
        /\ \A i \in 1..Len(activities) :
              Cardinality({pl \in Places :
                  weekly_activities[pl[1]].acts[pl[2]].id = activities[i].id}) = 1
        /\ Cardinality(Places) = Len(activities)
        /\ Len(weekly) = Len(weekly_activities)
        /\ \A b \in 1..Len(weekly_activities) :
              \E w \in 1..Len(weekly) :
                  /\ weekly[w].key = weekly_activities[b].key
                  /\ weekly[w].stats.total_activities = Len(weekly_activities[b].acts)
        /\ \A v, w \in 1..Len(weekly) : v # w => weekly[v].key # weekly[w].key

\* C7 witness: three activities went into two buckets, two of them into one.
C7_Witness ==
    /\ WeeklyReturned
    /\ Len(activities) = 3
    /\ Len(weekly_activities) = 2
    /\ \E b \in 1..2 : Len(weekly_activities[b].acts) = 2

\* C8: every week key of the summary is the date of a Monday; every activity in
\* its bucket has a start_date from that Monday to the Sunday six days later; an
\* activity dated on a Monday is keyed by its own date, one dated on a Sunday by
\* the date six days earlier; two activities of one bucket are less than 7 days apart.
C8_WeekIsMondayToSunday ==
    WeeklyReturned =>
        /\ {summary.value.weekly[w].key : w \in 1..Len(summary.value.weekly)}
               = {weekly_activities[b].key : b \in 1..Len(weekly_activities)}
        /\ \A b \in 1..Len(weekly_activities) :
              LET key == weekly_activities[b].key
                  acts == weekly_activities[b].acts
              IN
              /\ Len(key) = 10 /\ key[5] = 45 /\ key[8] = 45
              /\ IsMonday(DayOfText(key))
              /\ \A q \in 1..Len(acts) :
                    LET day == DayOfText(acts[q].start_date) IN
                    /\ DayOfText(key) <= day /\ day <= DayOfText(key) + 6
                    /\ IsMonday(day) => key = SubSeq(acts[q].start_date, 1, 10)
                    /\ IsMonday(day + 1) => DayOfText(key) = day - 6
              /\ \A q, r \in 1..Len(acts) :
                    DayOfText(acts[q].start_date) - DayOfText(acts[r].start_date) < 7

\* C8 witness: a Monday and the Sunday six days later share a bucket, and the
\* Monday seven days after the first has a bucket of its own.
C8_Witness ==
    /\ WeeklyReturned
    /\ \E b, c \in 1..Len(weekly_activities) :
          /\ b # c
          /\ \E q, r \in 1..Len(weekly_activities[b].acts) :
                DayOfText(weekly_activities[b].acts[r].start_date)
                    = DayOfText(weekly_activities[b].acts[q].start_date) + 6
          /\ DayOfText(weekly_activities[c].key) = DayOfText(weekly_activities[b].key) + 7
          /\ \E q \in 1..Len(weekly_activities[c].acts) :
                DayOfText(weekly_activities[c].acts[q].start_date)
                    = DayOfText(weekly_activities[c].key)

\* C9 as claimed: the week of an activity is the week of its local start date
\* (start_date_local): every activity of a bucket has its local date from the
\* bucket's Monday to the Sunday after.
C9_WeekOfLocalStartDate ==
    WeeklyReturned =>
        \A b \in 1..Len(weekly_activities) :
            \A q \in 1..Len(weekly_activities[b].acts) :
                LET day == DayOfText(weekly_activities[b].acts[q].start_date_local) IN
                /\ DayOfText(weekly_activities[b].key) <= day
                /\ day <= DayOfText(weekly_activities[b].key) + 6

\* C10: the weekly mapping of the summary lists its keys in strictly ascending
\* date order, whatever the order of the input.
C10_WeeklyKeysAscending ==
    WeeklyReturned =>
        \A v, w \in 1..Len(summary.value.weekly) :
            v < w => DayOfText(summary.value.weekly[v].key) < DayOfText(summary.value.weekly[w].key)

\* C10 witness: the input came newest first, three weeks of it, and the summary
\* lists the weeks in another order than they were first met.
C10_Witness ==
    /\ WeeklyReturned
    /\ Len(summary.value.weekly) = 3
    /\ \A i \in 1..(Len(activities) - 1) :
          DayOfText(activities[i].start_date) > DayOfText(activities[i + 1].start_date)
    /\ summary.value.weekly[1].key = weekly_activities[3].key

\* The Monday of the week a day lies in.
MondayOf(day) == day - ((day + 3) % 7)

\* The weeks (their Mondays) the input activities start in.
InputWeeks == {MondayOf(DayOfText(passed[i].start_date)) : i \in 1..Len(passed)}

\* The weeks the summary's weekly mapping lists.
WeeklyWeeks == {DayOfText(summary.value.weekly[w].key) : w \in 1..Len(summary.value.weekly)}

\* C11 as claimed: with a week window of N, the weekly mapping of the summary
\* holds exactly the N most recent distinct weeks of the data (all of them when
\* the data has fewer than N), in ascending order.
C11_WindowKeepsMostRecentWeeks ==
    WeeklyReturned =>
        \A N \in 1..Len(passed) :
            /\ WeeklyWeeks =
                  {d \in InputWeeks : Cardinality({e \in InputWeeks : e > d}) < N}
            /\ \A v, w \in 1..Len(summary.value.weekly) :
                  v < w => DayOfText(summary.value.weekly[v].key)
                              < DayOfText(summary.value.weekly[w].key)

\* C12: get_activities_summary of an empty list returns the empty mapping, with
\* neither an 'overall' nor a 'weekly' key, and raises nothing, whether
\* include_weekly is true or false, on the first call and on the second.
C12_EmptyInputEmptySummary ==
    (phase = "summarized" /\ passed = <<>>) =>
        /\ summary.ok
        /\ "value" \in DOMAIN summary
        /\ DOMAIN summary.value = {}
        /\ previous \in {None, summary}

\* C12 witness: the empty list was summarized with include_weekly true.
C12_Witness ==
    /\ phase = "summarized"
    /\ passed = <<>>
    /\ include_weekly
    /\ summary = Returned(<<>>)

\* C13: each record clean_activities returns has the keys of its input record
\* without athlete, map, start_latlng and end_latlng and no other key; every
\* field other than the six converted ones has its input value; a record
\* without any of the six is its input without the four keys, also after it is
\* cleaned a second time.
C13_CleanKeepsKeysAndOtherFields ==
    phase \in {"cleaned", "recleaned"} =>
        /\ Len(cleaned) = Len(passed)
        /\ \A i \in 1..Len(passed) :
              LET removed == {"athlete", "map", "start_latlng", "end_latlng"}
                  metric == {"distance", "elev_high", "elev_low", "total_elevation_gain",
                             "average_speed", "max_speed"}
              IN
              /\ DOMAIN cleaned[i] = (DOMAIN passed[i]) \ removed
              /\ \A k \in (DOMAIN cleaned[i]) \ metric : cleaned[i][k] = passed[i][k]
              /\ (DOMAIN passed[i]) \cap metric = {} =>
                    cleaned[i] = [k \in (DOMAIN passed[i]) \ removed |-> passed[i][k]]

\* The credentials of the get_activities invocation that were neither passed
\* with a non-empty value nor set in the environment.
AbsentFields ==
    {CredentialNames[i] : i \in {j \in 1..3 :
        /\ tool.args[j] \in {<<>>, <<"">>}
        /\ CredentialNames[j] \notin env}}

\* The tool returned the tagged result {error: message}.
ErrorReturned ==
    /\ tool_result.ok
    /\ "value" \in DOMAIN tool_result
    /\ tool_result.value.json = "object"
    /\ DOMAIN tool_result.value.members = {"error"}
    /\ tool_result.value.members.error # <<>>

\* C14: when a credential of a get_activities invocation is absent, the tool
\* returns an error result whose message names every absent credential and no
\* present one, and the invocation issues no HTTP request.
C14_MissingCredentialsNamedNoRequest ==
    (tool.name = "get_activities" /\ AbsentFields # {}) =>
        /\ ErrorReturned
        /\ LET message == tool_result.value.members.error IN
           {message[k] : k \in 1..Len(message)}
               \cap {"client_id", "client_secret", "access_token"} = AbsentFields
        /\ tool_requests = <<>>

\* C14 witness: client_id came from the environment, client_secret was passed as
\* an empty string and access_token not at all; the error names the last two.
C14_Witness ==
    /\ tool.name = "get_activities"
    /\ env = {"client_id"}
    /\ tool.args = <<<<>>, <<"">>, <<>>>>
    /\ AbsentFields = {"client_secret", "access_token"}
    /\ ErrorReturned
    /\ tool_requests = <<>>

\* A text of the form YYYY-MM-DDTHH:MM:SSZ.
IsTimestamp(text) ==
    /\ Len(text) = 20
    /\ text[5] = 45 /\ text[8] = 45 /\ text[11] = 84
    /\ text[14] = 58 /\ text[17] = 58 /\ text[20] = 90
    /\ \A k \in (1..19) \ {5, 8, 11, 14, 17} : text[k] \in 48..57

\* Something fails inside the invocation that has ended: a credential is
\* absent or the request is not answered with 200 (get_activities); weeks are
\* asked for and an activity has no start_date that is a timestamp
\* (summarize_activities).
InvocationFails ==
    IF tool.name = "get_activities"
    THEN AbsentFields # {} \/ tool_requests[1].status # 200
    ELSE /\ tool.include_weekly
         /\ \E i \in 1..Len(tool.activities) :
               \/ "start_date" \notin DOMAIN tool.activities[i]
               \/ ~IsTimestamp(tool.activities[i].start_date)

\* C15: an invocation of get_activities or summarize_activities always ends by
\* returning, never by raising; when something fails inside it the result is
\* the tagged result {error: message}, and otherwise the result has no 'error'
\* key.
C15_ToolsReturnTaggedErrors ==
    tool.name # "none" =>
        /\ tool_result.ok
        /\ "value" \in DOMAIN tool_result
        /\ InvocationFails => ErrorReturned
        /\ ~InvocationFails =>
              ~(/\ tool_result.value.json = "object"
                /\ "error" \in DOMAIN tool_result.value.members)

\* C15 witness: get_activities had its credentials and its request was answered
\* with 401; the tool returned the error.
C15_Witness ==
    /\ tool.name = "get_activities"
    /\ AbsentFields = {}
    /\ Len(tool_requests) = 1
    /\ tool_requests[1].status = 401
    /\ ErrorReturned

\* C16 as claimed: no invocation writes state that outlives it; the settings
\* the tools of a server share are, after any sequence of invocations, what
\* create_mcp_server made them.
C16_NoStateRetainedBetweenInvocations ==
    settings = ServerSettings(env)

\* The sum, over the input activities numbered in members, of field key times
\* scale, an activity without the field adding 0.
RECURSIVE TotalOf(_, _, _)
TotalOf(key, scale, members) ==
    IF members = {} THEN 0
    ELSE LET i == CHOOSE j \in members : TRUE IN
         (IF key \in DOMAIN passed[i] THEN passed[i][key] * scale ELSE 0)
             + TotalOf(key, scale, members \ {i})

\* The sum of the counts a mapping holds under the keys in types.
RECURSIVE CountSum(_, _)
CountSum(counts, types) ==
    IF types = {} THEN 0
    ELSE LET t == CHOOSE u \in types : TRUE IN counts[t] + CountSum(counts, types \ {t})

\* The type an input activity is counted under.
TypeOf(i) == IF "type" \in DOMAIN passed[i] THEN passed[i]["type"] ELSE "Unknown"

\* stats is the statistics block of the input activities numbered in members.
StatsOf(stats, members) ==
    /\ stats.total_activities = Cardinality(members)
    /\ DOMAIN stats.activity_types = {TypeOf(i) : i \in members}
    /\ \A t \in DOMAIN stats.activity_types :
          stats.activity_types[t] = Cardinality({i \in members : TypeOf(i) = t})
    /\ CountSum(stats.activity_types, DOMAIN stats.activity_types) = stats.total_activities
    /\ stats.total_distance_miles = TotalOf("distance", 621371, members)
    /\ stats.total_moving_time_hours = <<TotalOf("moving_time", 1, members), 3600>>
    /\ stats.total_elapsed_time_hours = <<TotalOf("elapsed_time", 1, members), 3600>>

\* The input activities that start in the week of a week key.
WeekMembers(key) ==
    {i \in 1..Len(passed) : MondayOf(DayOfText(passed[i].start_date)) = DayOfText(key)}

\* get_activities_summary has returned a summary of a non-empty list.
SummaryReturned == phase = "summarized" /\ passed # <<>> /\ summary.ok

\* C17: in the overall block and in each week's block of a returned summary,
\* every activity is counted under exactly one activity_types entry, its type or
\* "Unknown" when it has none, the counts add up to total_activities, and an
\* activity without distance, moving_time or elapsed_time is counted and adds 0
\* to that total.
C17_EveryActivityCountedUnderOneType ==
    SummaryReturned =>
        /\ StatsOf(summary.value.overall, 1..Len(passed))
        /\ include_weekly =>
              \A w \in 1..Len(summary.value.weekly) :
                  StatsOf(summary.value.weekly[w].stats, WeekMembers(summary.value.weekly[w].key))

\* C17 witness: a run, a ride without a distance and an activity without a type
\* were summarized, the first two in one week.
C17_Witness ==
    /\ SummaryReturned /\ include_weekly
    /\ summary.value.overall.activity_types = [t \in {"Run", "Ride", "Unknown"} |-> 1]
    /\ summary.value.overall.total_distance_miles = 100 * 621371
    /\ \E w \in 1..Len(summary.value.weekly) :
          /\ summary.value.weekly[w].stats.activity_types = [t \in {"Run", "Ride"} |-> 1]
          /\ summary.value.weekly[w].stats.total_distance_miles = 100 * 621371

\* The count a statistics block holds for a type, 0 when it has no entry.
CountIn(stats, t) == IF t \in DOMAIN stats.activity_types THEN stats.activity_types[t] ELSE 0

\* The sum of f over the weeks numbered 1..n of the summary.
RECURSIVE WeeklySum(_, _)
WeeklySum(f(_), n) ==
    IF n = 0 THEN 0 ELSE WeeklySum(f, n - 1) + f(summary.value.weekly[n].stats)

\* C18: in a returned summary of a non-empty list with include_weekly true, the
\* overall total_activities is the input length and the sum of the weekly
\* total_activities, each overall activity_types count is the sum of that type's
\* weekly counts (so no type is left out of the weeks), and every week listed has
\* at least one activity; with include_weekly false the result has the overall
\* block of the input and no 'weekly' key.
C18_OverallAgreesWithWeekly ==
    SummaryReturned =>
        LET overall == summary.value.overall IN
        /\ overall.total_activities = Len(passed)
        /\ include_weekly =>
              LET weekly == summary.value.weekly
                  Total(stats) == stats.total_activities
              IN
              /\ DOMAIN summary.value = {"overall", "weekly"}
              /\ WeeklySum(Total, Len(weekly)) = overall.total_activities
              /\ \A t \in (DOMAIN overall.activity_types) \cup {"Run", "Ride", "Unknown"} :
                    LET OfType(stats) == CountIn(stats, t) IN
                    WeeklySum(OfType, Len(weekly)) = CountIn(overall, t)
              /\ \A w \in 1..Len(weekly) : weekly[w].stats.total_activities >= 1
        /\ ~include_weekly =>
              /\ DOMAIN summary.value = {"overall"}
              /\ StatsOf(overall, 1..Len(passed))

\* C18 witness: two runs and a ride in two weeks were summarized with weeks.
C18_Witness ==
    /\ SummaryReturned /\ include_weekly
    /\ Len(summary.value.weekly) = 2
    /\ summary.value.overall.activity_types = [t \in {"Run", "Ride"} |-> IF t = "Run" THEN 2 ELSE 1]

C13_Witness ==
    /\ phase = "recleaned"
    /\ \E i, j \in 1..Len(passed) :
          /\ "map" \in DOMAIN passed[i]
          /\ "map" \notin DOMAIN cleaned[i]
          /\ cleaned[j] = passed[j]

====
